---------------------------- MODULE Spec2Model ----------------------------
(***************************************************************************)
(* Model of the drawing analyser of Perfect-Square (client/src/lib/        *)
(* game-logic.ts, kept here as src/unnamed/part_002).                      *)
(*                                                                         *)
(* Numbers.  The program computes with IEEE doubles.  The model keeps      *)
(*   - raw pointer samples as integers (pixels);                           *)
(*   - normalized coordinates, lengths and cosines in units of 1/Scale;    *)
(*   - angles in units of 1/Scale radian;                                  *)
(*   - the unrounded metric scores in units of 1/100 point;                *)
(*   - the weighted sum of calculateFinalScore as an exact double (see     *)
(*     Dbl below), because its rounding is what decides the total;         *)
(*   - NaN and Infinity as the two values NaN and Infinity, propagated     *)
(*     by every operation the way IEEE arithmetic propagates them.         *)
(* Math.hypot, Math.sqrt and Math.acos are computed to the nearest unit.   *)
(***************************************************************************)
EXTENDS Integers, Sequences, FiniteSets, TLC

(***************************************************************************)
(* Bounds of the model.                                                    *)
(***************************************************************************)
MaxLineLen == 22

MaxCalls == 3

MetricStride == 25

MaxStored == 11

\* the number of strokes the page is given in GameSpec
MaxStrokes == 2

(***************************************************************************)
(* Number representation.                                                  *)
(***************************************************************************)
Scale == 10000
NaN == -2000000000
Infinity == 2000000000

Abs(a) == IF a < 0 THEN -a ELSE a

\* nearest integer to a / b, for b > 0 (halves towards +infinity)
RDiv(a, b) == (a + (b \div 2)) \div b

\* IEEE a - b, a * b and a / b on model numbers
FSub(a, b) == IF a = NaN \/ b = NaN THEN NaN ELSE a - b

FAdd(a, b) == IF a = NaN \/ b = NaN THEN NaN ELSE a + b

FMulInf(a) == IF a = NaN \/ a = 0 THEN NaN ELSE Infinity

FDivExact(a, b) ==
  IF a = NaN \/ b = NaN THEN NaN
  ELSE IF b = 0 THEN (IF a = 0 THEN NaN ELSE Infinity)
  ELSE RDiv(a, b)

\* Math.max(0, a): NaN if a is NaN
Max0(a) == IF a = NaN THEN NaN ELSE IF a < 0 THEN 0 ELSE a

\* Math.round of a score held in 1/100 points
Round(a) == IF a = NaN THEN NaN ELSE (a + 50) \div 100

RECURSIVE SqrtIter(_, _, _)
SqrtIter(n, lo, hi) ==
  IF hi - lo <= 1 THEN (IF n - lo * lo > lo THEN lo + 1 ELSE lo)
  ELSE LET m == (lo + hi) \div 2
       IN IF m * m <= n THEN SqrtIter(n, m, hi) ELSE SqrtIter(n, lo, m)

\* Math.sqrt to the nearest integer
Sqrt(n) == IF n <= 0 THEN 0 ELSE SqrtIter(n, 0, 46341)

(***************************************************************************)
(* Math utilities (part_002 lines 29-46).                                  *)
(***************************************************************************)
Pt(px, py) == [x |-> px, y |-> py]

NaNPt == Pt(NaN, NaN)

hypot(dx, dy) == IF dx = NaN \/ dy = NaN THEN NaN ELSE Sqrt(dx * dx + dy * dy)

getVector(p1, p2) == Pt(FSub(p2.x, p1.x), FSub(p2.y, p1.y))

distance(p1, p2) == hypot(FSub(p2.x, p1.x), FSub(p2.y, p1.y))

dotProduct(v1, v2) ==
  IF v1.x = NaN \/ v1.y = NaN \/ v2.x = NaN \/ v2.y = NaN THEN NaN
  ELSE v1.x * v2.x + v1.y * v2.y

magnitude(v) == hypot(v.x, v.y)

PiRad == 31416
HalfPi == 15708
QuarterPi == 7854

\* Math.acos of a cosine in 1/Scale, in 1/Scale radian
\* (Abramowitz-Stegun 4.4.45, absolute error below 1/Scale)
AcosPos(c) ==
  LET p3 == RDiv(-1873 * c, Scale) + 7426
      p2 == RDiv(p3 * c, Scale) - 21211
      p1 == RDiv(p2 * c, Scale) + 157073
  IN RDiv(Sqrt((Scale - c) * Scale) * p1, 100000)

Acos(c) == IF c < 0 THEN PiRad - AcosPos(-c) ELSE AcosPos(c)

ClampUnit(c) == IF c > Scale THEN Scale ELSE IF c < -Scale THEN -Scale ELSE c

angleBetween(v1, v2) ==
  LET m1 == magnitude(v1)
      m2 == magnitude(v2)
  IN IF m1 = 0 \/ m2 = 0 THEN 0
     ELSE IF m1 = NaN \/ m2 = NaN THEN NaN
     ELSE Acos(ClampUnit(RDiv(RDiv(dotProduct(v1, v2) * 10, m1) * 1000, m2)))

(***************************************************************************)
(* normalizePath (part_002 lines 50-79).  The translated points and        *)
(* maxDist are kept in units of 1/n pixel (n the path length), so that the *)
(* centroid division is exact; scaling by 0.5 / maxDist brings them to     *)
(* units of 1/Scale.                                                       *)
(***************************************************************************)
SMOOTHING_WINDOW == 5

\* The loops over the path are folded by halves, s[lo..mid] before
\* s[mid+1..hi], which keeps the order of the code's left-to-right loop.
RECURSIVE SumX(_, _, _)
SumX(s, lo, hi) ==
  IF lo > hi THEN 0
  ELSE IF lo = hi THEN s[lo].x
  ELSE FAdd(SumX(s, lo, (lo + hi) \div 2), SumX(s, ((lo + hi) \div 2) + 1, hi))

RECURSIVE SumY(_, _, _)
SumY(s, lo, hi) ==
  IF lo > hi THEN 0
  ELSE IF lo = hi THEN s[lo].y
  ELSE FAdd(SumY(s, lo, (lo + hi) \div 2), SumY(s, ((lo + hi) \div 2) + 1, hi))

\* lines 58-59: maxDist over s[lo..hi]
RECURSIVE MaxHypot(_, _, _)
MaxHypot(s, lo, hi) ==
  IF lo > hi THEN 0
  ELSE IF lo = hi THEN hypot(s[lo].x, s[lo].y)
  ELSE LET a == MaxHypot(s, lo, (lo + hi) \div 2)
           b == MaxHypot(s, ((lo + hi) \div 2) + 1, hi)
       IN IF b > a THEN b ELSE a

Translated(pts) ==
  LET n == Len(pts)
      sumX == SumX(pts, 1, n)
      sumY == SumY(pts, 1, n)
  IN [i \in 1..n |-> Pt(n * pts[i].x - sumX, n * pts[i].y - sumY)]

\* p * scale with scale = 0.5 / maxDist
ScaleCoord(v, maxDist) ==
  IF FDivExact(Scale \div 2, maxDist) = Infinity THEN FMulInf(v)
  ELSE RDiv(v * Scale, 2 * maxDist)

Scaled(tr, maxDist) ==
  [i \in 1..Len(tr) |-> Pt(ScaleCoord(tr[i].x, maxDist), ScaleCoord(tr[i].y, maxDist))]

WinLo(i) == IF i - SMOOTHING_WINDOW < 1 THEN 1 ELSE i - SMOOTHING_WINDOW

WinHi(i, n) == IF i + SMOOTHING_WINDOW > n THEN n ELSE i + SMOOTHING_WINDOW

\* the moving average with the samples beyond the ends taken as zeros
SmoothedPadded(nm) ==
  LET n == Len(nm)
  IN [i \in 1..n |->
        LET count == 2 * SMOOTHING_WINDOW + 1
        IN Pt(FDivExact(SumX(nm, WinLo(i), WinHi(i, n)), count),
              FDivExact(SumY(nm, WinLo(i), WinHi(i, n)), count))]

Smoothed(nm) ==
  LET n == Len(nm)
  IN [i \in 1..n |->
        LET count == WinHi(i, n) - WinLo(i) + 1
        IN Pt(FDivExact(SumX(nm, WinLo(i), WinHi(i, n)), count),
              FDivExact(SumY(nm, WinLo(i), WinHi(i, n)), count))]

normalizePath(pts) ==
  LET tr == Translated(pts)
  IN Smoothed(Scaled(tr, MaxHypot(tr, 1, Len(tr))))

(***************************************************************************)
(* detectCorners (part_002 lines 81-110).  Indices are those of the code   *)
(* (0-based); At reads a 0-based index of a sequence.                      *)
(***************************************************************************)
At(s, i) == s[i + 1]

CornerAngle == 3000

\* the candidate test on the chords to the adjacent samples
CandidateAtAdjacent(pts, i) ==
  LET v1 == getVector(At(pts, i - 1), At(pts, i))
      v2 == getVector(At(pts, i), At(pts, i + 1))
      angleChange == angleBetween(v1, v2)
  IN IF angleChange # NaN /\ angleChange > CornerAngle
     THEN <<[idx |-> i, strength |-> angleChange]>>
     ELSE <<>>

\* lines 85-90: index i as a candidate
CandidateAt(pts, i) ==
  LET v1 == getVector(At(pts, i - 2), At(pts, i))
      v2 == getVector(At(pts, i), At(pts, i + 2))
      angleChange == angleBetween(v1, v2)
  IN IF angleChange # NaN /\ angleChange > CornerAngle
     THEN <<[idx |-> i, strength |-> angleChange]>>
     ELSE <<>>

\* lines 84-91: the candidates of the indices lo..hi, in index order
RECURSIVE CandidatesIn(_, _, _)
CandidatesIn(pts, lo, hi) ==
  IF lo > hi THEN <<>>
  ELSE IF lo = hi THEN CandidateAt(pts, lo)
  ELSE CandidatesIn(pts, lo, (lo + hi) \div 2)
         \o CandidatesIn(pts, ((lo + hi) \div 2) + 1, hi)

\* line 94: candidates.sort((a, b) => b.strength - a.strength), a stable sort
RECURSIVE InsertByStrength(_, _)
InsertByStrength(sorted, c) ==
  IF sorted = <<>> THEN <<c>>
  ELSE IF Head(sorted).strength >= c.strength
       THEN <<Head(sorted)>> \o InsertByStrength(Tail(sorted), c)
       ELSE <<c>> \o sorted

RECURSIVE SortByStrength(_, _)
SortByStrength(cands, k) ==
  IF k = 0 THEN <<>>
  ELSE InsertByStrength(SortByStrength(cands, k - 1), cands[k])

\* line 98: corners.every(idx => Math.abs(idx - cand.idx) > points.length / 8)
FarEnough(corners, idx, n) ==
  \A k \in 1..Len(corners) : 8 * Abs(corners[k] - idx) > n

\* lines 95-101: greedy selection over the sorted candidates
RECURSIVE Greedy(_, _, _)
Greedy(cands, corners, n) ==
  IF cands = <<>> \/ Len(corners) >= 4 THEN corners
  ELSE IF FarEnough(corners, Head(cands).idx, n)
       THEN Greedy(Tail(cands), Append(corners, Head(cands).idx), n)
       ELSE Greedy(Tail(cands), corners, n)

\* the fill-up with Math.ceil in place of Math.floor
RECURSIVE FallbackCeil(_, _)
FallbackCeil(corners, n) ==
  IF Len(corners) >= 4 THEN corners
  ELSE FallbackCeil(Append(corners, (Len(corners) * n + 3) \div 4), n)

\* lines 104-107: fill up to 4 with Math.floor(corners.length * n / 4)
RECURSIVE Fallback(_, _)
Fallback(corners, n) ==
  IF Len(corners) >= 4 THEN corners
  ELSE Fallback(Append(corners, (Len(corners) * n) \div 4), n)

\* line 109: corners.sort((a, b) => a - b)
RECURSIVE InsertAsc(_, _)
InsertAsc(sorted, v) ==
  IF sorted = <<>> THEN <<v>>
  ELSE IF Head(sorted) <= v THEN <<Head(sorted)>> \o InsertAsc(Tail(sorted), v)
       ELSE <<v>> \o sorted

RECURSIVE SortAsc(_, _)
SortAsc(s, k) == IF k = 0 THEN <<>> ELSE InsertAsc(SortAsc(s, k - 1), s[k])

sortedCandidates(pts) ==
  LET cands == CandidatesIn(pts, 2, Len(pts) - 3) IN SortByStrength(cands, Len(cands))

\* the indices left in the order of acceptance (line 109 without its sort)
cornerIndicesUnsorted(accepted, n) == Fallback(accepted, n)

cornerIndices(accepted, n) ==
  LET all == Fallback(accepted, n) IN SortAsc(all, Len(all))

\* the indices of line 109, sorted
detectCornerIndices(pts) ==
  cornerIndices(Greedy(sortedCandidates(pts), <<>>, Len(pts)), Len(pts))

\* line 109: .map(idx => points[idx])
pointsAt(pts, idxs) == [k \in 1..Len(idxs) |-> At(pts, idxs[k])]

detectCorners(pts) == pointsAt(pts, detectCornerIndices(pts))

(***************************************************************************)
(* Metric evaluators (part_002 lines 112-165 and 194-198).  Each returns   *)
(* the unrounded score in units of 1/100 point.                            *)
(***************************************************************************)
Next4(i) == (i % 4) + 1

Prev4(i) == ((i + 2) % 4) + 1

\* the closure score without its clamp at 0
closureScoreOfUnclamped(pts) ==
  LET closureDist == distance(pts[1], pts[Len(pts)])
  IN IF closureDist = NaN THEN NaN
     ELSE 10000 - RDiv(closureDist * 10000, Scale \div 4)

\* lines 195-198; CLOSURE_THRESHOLD * 5 is 0.25, i.e. Scale \div 4
closureScoreOf(pts) ==
  LET closureDist == distance(pts[1], pts[Len(pts)])
  IN IF closureDist = NaN THEN NaN
     ELSE Max0(10000 - RDiv(closureDist * 10000, Scale \div 4))

evaluateSides(cs) ==
  LET lengths == [i \in 1..4 |-> distance(cs[i], cs[Next4(i)])]
  IN IF \E i \in 1..4 : lengths[i] = NaN THEN NaN
     ELSE LET avg == RDiv(lengths[1] + lengths[2] + lengths[3] + lengths[4], 4)
              sq(i) == (lengths[i] - avg) * (lengths[i] - avg)
              variance == RDiv(sq(1) + sq(2) + sq(3) + sq(4), 4)
              stdDev == Sqrt(variance)
              relError == FDivExact(stdDev * Scale, avg)
          IN IF relError = NaN THEN NaN ELSE Max0(10000 - relError * 5)

\* lines 127-135: the score of corner i, in 1/Scale
cornerScore(cs, i) ==
  LET v1 == getVector(cs[i], cs[Prev4(i)])
      v2 == getVector(cs[i], cs[Next4(i)])
      angle == angleBetween(v1, v2)
  IN IF angle = NaN THEN NaN
     ELSE Max0(Scale - RDiv(Abs(angle - HalfPi) * Scale, QuarterPi))

evaluateAngles(cs) ==
  LET sc == [i \in 1..4 |-> cornerScore(cs, i)]
  IN IF \E i \in 1..4 : sc[i] = NaN THEN NaN
     ELSE RDiv((sc[1] + sc[2] + sc[3] + sc[4]) * 10000, 4 * Scale)

\* lines 153-159 for one point p and one side:
\* <<deviation added, points counted>>
PointDeviation(p, start, sideVec, sideLen) ==
  LET toP == getVector(start, p)
      proj == FDivExact(dotProduct(toP, sideVec), sideLen)
      normal == Pt(FDivExact(-sideVec.y * Scale, sideLen),
                   FDivExact(sideVec.x * Scale, sideLen))
  IN IF proj # NaN /\ proj >= 0 /\ proj <= sideLen
     THEN <<Abs(RDiv(dotProduct(toP, normal), Scale)), 1>>
     ELSE <<0, 0>>

\* lines 152-160 for one side, over the points pts[lo..hi]
RECURSIVE SideDeviation(_, _, _, _, _, _)
SideDeviation(pts, lo, hi, start, sideVec, sideLen) ==
  IF lo > hi THEN <<0, 0>>
  ELSE IF lo = hi THEN PointDeviation(pts[lo], start, sideVec, sideLen)
  ELSE LET a == SideDeviation(pts, lo, (lo + hi) \div 2, start, sideVec, sideLen)
           b == SideDeviation(pts, ((lo + hi) \div 2) + 1, hi, start, sideVec, sideLen)
       IN <<a[1] + b[1], a[2] + b[2]>>

\* evaluateStraightness with an average deviation of 0 when no point counts
evaluateStraightnessNoFallback(pts, cs) ==
  LET side(i) == SideDeviation(pts, 1, Len(pts), cs[i], getVector(cs[i], cs[Next4(i)]),
                               magnitude(getVector(cs[i], cs[Next4(i)])))
      d == [i \in 1..4 |-> side(i)]
      totalDeviation == d[1][1] + d[2][1] + d[3][1] + d[4][1]
      count == d[1][2] + d[2][2] + d[3][2] + d[4][2]
      avgDev == IF count > 0 THEN RDiv(totalDeviation, count) ELSE 0
  IN Max0(10000 - 10 * RDiv(avgDev * 10000, Scale))

evaluateStraightness(pts, cs) ==
  LET side(i) == SideDeviation(pts, 1, Len(pts), cs[i], getVector(cs[i], cs[Next4(i)]),
                               magnitude(getVector(cs[i], cs[Next4(i)])))
      d == [i \in 1..4 |-> side(i)]
      totalDeviation == d[1][1] + d[2][1] + d[3][1] + d[4][1]
      count == d[1][2] + d[2][2] + d[3][2] + d[4][2]
      avgDev == IF count > 0 THEN RDiv(totalDeviation, count) ELSE Scale \div 2
  IN Max0(10000 - 10 * RDiv(avgDev * 10000, Scale))

\* number of path points counted by evaluateStraightness over the 4 sides
straightnessCount(pts, cs) ==
  LET side(i) == SideDeviation(pts, 1, Len(pts), cs[i], getVector(cs[i], cs[Next4(i)]),
                               magnitude(getVector(cs[i], cs[Next4(i)])))
  IN side(1)[2] + side(2)[2] + side(3)[2] + side(4)[2]

(***************************************************************************)
(* Doubles of calculateFinalScore (part_002 lines 167-180).                *)
(* A Dbl [h, e] is the double h/100 + e/(100 * 2^56): h hundredths plus    *)
(* the representation error e.  Every double met in the weighted sum of    *)
(* integer metrics 0..100 has this form with small h and e, and DblRound   *)
(* is IEEE round-to-nearest-even of such a value to 53 significant bits.   *)
(***************************************************************************)
RECURSIVE Pow2(_)
Pow2(k) == IF k = 0 THEN 1 ELSE 2 * Pow2(k - 1)

RECURSIVE Pow2Mod(_, _)
Pow2Mod(k, m) == IF k = 0 THEN 1 % m ELSE (2 * Pow2Mod(k - 1, m)) % m

\* h/100 + e/(100 * 2^56) >= 2^k, for -4 <= k
AtLeastPow2(h, e, k) ==
  IF k >= 0 THEN h > 100 * Pow2(k) \/ (h = 100 * Pow2(k) /\ e >= 0)
  ELSE h * Pow2(-k) > 100 \/ (h * Pow2(-k) = 100 /\ e >= 0)

\* the binary exponent of the value: 2^k <= value < 2^(k+1)
RECURSIVE Binade(_, _, _)
Binade(h, e, k) == IF AtLeastPow2(h, e, k + 1) THEN Binade(h, e, k + 1) ELSE k

DblRound(h, e) ==
  IF h = 0 THEN [h |-> 0, e |-> 0]
  ELSE LET q == 52 - Binade(h, e, -4)           \* the value is a multiple of 2^-q
           r == ((h % 100) * Pow2Mod(q, 100)) % 100
           n0odd == ((h % 200) * Pow2Mod(q, 200)) % 200 >= 100
           sh == Pow2(56 - q)
           D == 100 * sh
           F == r * sh + e
           k == F \div D
           f == F - k * D
           nodd == (n0odd # (k % 2 = 1))
           up == IF 2 * f > D \/ (2 * f = D /\ nodd) THEN 1 ELSE 0
       IN [h |-> h, e |-> (100 * (k + up) - r) * sh]

\* the double nearest to h/100
DblConst(h) == DblRound(h, 0)

\* metric * weight and a + b, each rounded once
DblMul(a, c) == DblRound(a * c.h, a * c.e)

DblAdd(a, b) == DblRound(a.h + b.h, a.e + b.e)

\* Math.round(x) is floor(x + 0.5), computed exactly
DblMathRound(a) ==
  IF (a.h + 50) % 100 = 0 /\ a.e < 0 THEN ((a.h + 50) \div 100) - 1
  ELSE (a.h + 50) \div 100

weights == [angles |-> DblConst(35), sides |-> DblConst(30),
            straightness |-> DblConst(25), closure |-> DblConst(10)]

\* calculateFinalScore with the closure term counted downwards
calculateFinalScoreInverted(m) ==
  IF m.angles = NaN \/ m.sides = NaN \/ m.straightness = NaN \/ m.closure = NaN
  THEN NaN
  ELSE DblMathRound(
         DblAdd(DblAdd(DblAdd(DblMul(m.angles, weights.angles),
                              DblMul(m.sides, weights.sides)),
                       DblMul(m.straightness, weights.straightness)),
                DblMul(100 - m.closure, weights.closure)))

calculateFinalScore(m) ==
  IF m.angles = NaN \/ m.sides = NaN \/ m.straightness = NaN \/ m.closure = NaN
  THEN NaN
  ELSE DblMathRound(
         DblAdd(DblAdd(DblAdd(DblMul(m.angles, weights.angles),
                              DblMul(m.sides, weights.sides)),
                       DblMul(m.straightness, weights.straightness)),
                DblMul(m.closure, weights.closure)))

\* the thresholds taken as strict (> for >=)
feedbackOfStrict(t) ==
  IF t # NaN /\ t > 95 THEN "Perfect Square"
  ELSE IF t # NaN /\ t > 85 THEN "Almost Perfect"
  ELSE IF t # NaN /\ t > 70 THEN "Good Attempt"
  ELSE "Needs Practice"

\* lines 228-231
feedbackOf(t) ==
  IF t # NaN /\ t >= 95 THEN "Perfect Square"
  ELSE IF t # NaN /\ t >= 85 THEN "Almost Perfect"
  ELSE IF t # NaN /\ t >= 70 THEN "Good Attempt"
  ELSE "Needs Practice"

\* lines 215-225
idealSquareOf(cs) ==
  LET centerX == FDivExact(FAdd(FAdd(cs[1].x, cs[2].x), FAdd(cs[3].x, cs[4].x)), 4)
      centerY == FDivExact(FAdd(FAdd(cs[1].y, cs[2].y), FAdd(cs[3].y, cs[4].y)), 4)
      c == Pt(centerX, centerY)
      radius == FDivExact(FAdd(FAdd(distance(c, cs[1]), distance(c, cs[2])),
                               FAdd(distance(c, cs[3]), distance(c, cs[4]))), 4)
  IN << Pt(FSub(centerX, radius), FSub(centerY, radius)),
        Pt(FAdd(centerX, radius), FSub(centerY, radius)),
        Pt(FAdd(centerX, radius), FAdd(centerY, radius)),
        Pt(FSub(centerX, radius), FAdd(centerY, radius)) >>

(***************************************************************************)
(* Input paths: raw pointer samples, in chronological order.               *)
(***************************************************************************)
\* n samples along a straight line
Line(n) == [i \in 1..n |-> Pt(10 * (i - 1), 0)]

\* n samples of one and the same point
Same(n) == [i \in 1..n |-> Pt(3, 4)]

SquareCorner(s) ==
  IF s % 4 = 0 THEN Pt(-50, -50)
  ELSE IF s % 4 = 1 THEN Pt(50, -50)
  ELSE IF s % 4 = 2 THEN Pt(50, 50)
  ELSE Pt(-50, 50)

\* sample j of k on side s of the square with corners (+-0.5, +-0.5), in 1/100
SquarePoint(s, j, k) ==
  LET a == SquareCorner(s)
      b == SquareCorner(s + 1)
  IN Pt(a.x + ((b.x - a.x) * j) \div k, a.y + ((b.y - a.y) * j) \div k)

\* the square drawn from its first corner, k samples per side; when closed
\* a last sample returns exactly to the start
Square(k, closed) ==
  LET open == [i \in 1..(4 * k) |-> SquarePoint((i - 1) \div k, (i - 1) % k, k)]
  IN IF closed THEN Append(open, open[1]) ELSE open

\* the same square drawn from the middle of a side, the pointer resting for
\* d samples on each corner and taking k - 1 samples between two corners
DwellSquare(k, d, start) ==
  LET per == d + k - 1
      at(i) == IF i % per < d THEN SquareCorner(i \div per)
               ELSE SquarePoint(i \div per, (i % per) - d + 1, k)
  IN [i \in 1..(4 * per) |-> at((i - 1 + start) % (4 * per))]

\* n samples going back and forth along a line, h samples each way
Zigzag(n, h) ==
  [i \in 1..n |-> LET k == (i - 1) % (2 * h)
                  IN Pt(10 * (IF k <= h THEN k ELSE 2 * h - k), 0)]

\* 36 samples every 10 degrees around a circle of radius 80 pixels, and of
\* radius 100 pixels, at the nearest pixel
Circle36R80 ==
  << Pt(80, 0), Pt(79, 14), Pt(75, 27), Pt(69, 40), Pt(61, 51), Pt(51, 61),
     Pt(40, 69), Pt(27, 75), Pt(14, 79), Pt(0, 80), Pt(-14, 79), Pt(-27, 75),
     Pt(-40, 69), Pt(-51, 61), Pt(-61, 51), Pt(-69, 40), Pt(-75, 27), Pt(-79, 14),
     Pt(-80, 0), Pt(-79, -14), Pt(-75, -27), Pt(-69, -40), Pt(-61, -51), Pt(-51, -61),
     Pt(-40, -69), Pt(-27, -75), Pt(-14, -79), Pt(0, -80), Pt(14, -79), Pt(27, -75),
     Pt(40, -69), Pt(51, -61), Pt(61, -51), Pt(69, -40), Pt(75, -27), Pt(79, -14) >>

Circle36R100 ==
  << Pt(100, 0), Pt(98, 17), Pt(94, 34), Pt(87, 50), Pt(77, 64), Pt(64, 77),
     Pt(50, 87), Pt(34, 94), Pt(17, 98), Pt(0, 100), Pt(-17, 98), Pt(-34, 94),
     Pt(-50, 87), Pt(-64, 77), Pt(-77, 64), Pt(-87, 50), Pt(-94, 34), Pt(-98, 17),
     Pt(-100, 0), Pt(-98, -17), Pt(-94, -34), Pt(-87, -50), Pt(-77, -64), Pt(-64, -77),
     Pt(-50, -87), Pt(-34, -94), Pt(-17, -98), Pt(0, -100), Pt(17, -98), Pt(34, -94),
     Pt(50, -87), Pt(64, -77), Pt(77, -64), Pt(87, -50), Pt(94, -34), Pt(98, -17) >>

ShortInputs == { Line(n) : n \in 0..19 }

LongInputs ==
  { Line(n) : n \in 20..MaxLineLen } \cup { Same(20), Same(25) }
    \cup { Square(k, c) : k \in {5, 10, 25}, c \in BOOLEAN }
    \cup { DwellSquare(5, 11, 13), Zigzag(64, 8), Circle36R80, Circle36R100 }

Inputs == ShortInputs \cup LongInputs

\* the paths analysed one after the other in CallsSpec
CallInputs == { Line(5), Line(20), Square(5, FALSE), Square(5, TRUE) }

\* the metric values calculateFinalScore is applied to in ScoreSpec
MetricValues == { m \in 0..100 : m % MetricStride = 0 } \cup {85, 88, 95, 98}

(***************************************************************************)
(* analyzeDrawing (part_002 lines 182-248) as a state machine: pc is the   *)
(* position in the function, the other variables are its argument, its     *)
(* locals and what it returned.  candidates, accepted and cornerIdx are    *)
(* the locals of detectCorners.  ran records the callees that have run in  *)
(* the current call, returned the calls completed so far.                  *)
(***************************************************************************)
VARIABLES pc, rawPoints, points, candidates, accepted, cornerIdx, corners,
          scores, metrics, total, idealSquare, feedback, result, ran, returned

\* the scores table of the storage (part_005) and what its last operation
\* returned
VARIABLES stored, reply

analyzerVars == << pc, rawPoints, points, candidates, accepted, cornerIdx, corners,
                   scores, metrics, total, idealSquare, feedback, result, ran, returned >>

storageVars == << stored, reply >>

\* the Game page (Game.tsx): the React state isDrawing, points and result,
\* and the refs pointsRef and isDrawingRef
VARIABLES isDrawing, pagePoints, pageResult, pointsRef, isDrawingRef

\* what the page has been given and has done: the last pointer or button
\* event, the samples of the stroke in progress, the strokes completed by a
\* pointer-up, the paths passed to analyzeDrawing, the results passed to
\* setResult and the records passed to createScore.mutate
VARIABLES event, samples, strokes, analyzed, shownResults, submitted

pageState == << isDrawing, pagePoints, pageResult, pointsRef, isDrawingRef >>

pageHistory == << event, samples, strokes, analyzed, shownResults, submitted >>

pageVars == << pageState, pageHistory >>

vars == << analyzerVars, storageVars, pageVars >>

\* result === null
Null == [null |-> TRUE]

NoEvent == [type |-> "none"]

\* the page after it is mounted (Game.tsx lines 15-22)
EmptyPage ==
  /\ isDrawing = FALSE
  /\ pagePoints = <<>>
  /\ pageResult = Null
  /\ pointsRef = <<>>
  /\ isDrawingRef = FALSE
  /\ event = NoEvent
  /\ samples = <<>>
  /\ strokes = <<>>
  /\ analyzed = <<>>
  /\ shownResults = <<>>
  /\ submitted = <<>>

\* no storage operation has returned yet
NoReply == [op |-> "none"]

\* the scores table before any createScore
EmptyStorage ==
  /\ stored = <<>>
  /\ reply = NoReply

\* a threshold of half the samples
MIN_POINTS_Halved == 20 \div 2

MIN_POINTS == 20

ZeroMetrics == [closure |-> 0, angles |-> 0, sides |-> 0, straightness |-> 0]

NoResult == [total |-> 0, metrics |-> ZeroMetrics, feedback |-> ""]

\* lines 184-188
TooFast ==
  [total |-> 0, metrics |-> ZeroMetrics, feedback |-> "Too fast! Draw more slowly."]

InitLocals ==
  /\ points = <<>>
  /\ candidates = <<>>
  /\ accepted = <<>>
  /\ cornerIdx = <<>>
  /\ corners = <<>>
  /\ scores = ZeroMetrics
  /\ metrics = ZeroMetrics
  /\ total = 0
  /\ idealSquare = <<>>
  /\ feedback = ""
  /\ result = NoResult
  /\ ran = {}
  /\ returned = <<>>

\* one call of analyzeDrawing on a path of Inputs
Init ==
  /\ pc = "start"
  /\ rawPoints \in Inputs
  /\ InitLocals
  /\ EmptyStorage
  /\ EmptyPage

\* lines 183-189
Validate ==
  /\ pc = "start"
  /\ IF Len(rawPoints) < MIN_POINTS
     THEN /\ result' = TooFast
          /\ returned' = Append(returned, [input |-> rawPoints, result |-> result'])
          /\ pc' = "done"
     ELSE /\ pc' = "normalize"
          /\ UNCHANGED << result, returned >>
  /\ UNCHANGED << rawPoints, points, candidates, accepted, cornerIdx, corners,
                  scores, metrics, total, idealSquare, feedback, ran >>
  /\ UNCHANGED storageVars
  /\ UNCHANGED pageVars

\* line 191
NormalizePath ==
  /\ pc = "normalize"
  /\ points' = normalizePath(rawPoints)
  /\ ran' = ran \cup {"normalizePath"}
  /\ pc' = "detect"
  /\ UNCHANGED << rawPoints, candidates, accepted, cornerIdx, corners, scores,
                  metrics, total, idealSquare, feedback, result, returned >>
  /\ UNCHANGED storageVars
  /\ UNCHANGED pageVars

\* detectCorners with its candidates array shared by all calls
DetectCornersShared ==
  /\ pc = "detect"
  /\ candidates' = LET all == candidates \o CandidatesIn(points, 2, Len(points) - 3)
                   IN SortByStrength(all, Len(all))
  /\ accepted' = Greedy(candidates', <<>>, Len(points))
  /\ cornerIdx' = cornerIndices(accepted', Len(points))
  /\ corners' = pointsAt(points, cornerIdx')
  /\ ran' = ran \cup {"detectCorners"}
  /\ pc' = "closure"
  /\ UNCHANGED << rawPoints, points, scores, metrics, total, idealSquare,
                  feedback, result, returned >>
  /\ UNCHANGED storageVars
  /\ UNCHANGED pageVars

\* line 192
DetectCorners ==
  /\ pc = "detect"
  /\ candidates' = sortedCandidates(points)
  /\ accepted' = Greedy(candidates', <<>>, Len(points))
  /\ cornerIdx' = cornerIndices(accepted', Len(points))
  /\ corners' = pointsAt(points, cornerIdx')
  /\ ran' = ran \cup {"detectCorners"}
  /\ pc' = "closure"
  /\ UNCHANGED << rawPoints, points, scores, metrics, total, idealSquare,
                  feedback, result, returned >>
  /\ UNCHANGED storageVars
  /\ UNCHANGED pageVars

\* lines 195-198
EvaluateClosure ==
  /\ pc = "closure"
  /\ scores' = [scores EXCEPT !.closure = closureScoreOf(points)]
  /\ ran' = ran \cup {"closure"}
  /\ pc' = "sides"
  /\ UNCHANGED << rawPoints, points, candidates, accepted, cornerIdx, corners,
                  metrics, total, idealSquare, feedback, result, returned >>
  /\ UNCHANGED storageVars
  /\ UNCHANGED pageVars

\* line 200
EvaluateSides ==
  /\ pc = "sides"
  /\ scores' = [scores EXCEPT !.sides = evaluateSides(corners)]
  /\ ran' = ran \cup {"evaluateSides"}
  /\ pc' = "angles"
  /\ UNCHANGED << rawPoints, points, candidates, accepted, cornerIdx, corners,
                  metrics, total, idealSquare, feedback, result, returned >>
  /\ UNCHANGED storageVars
  /\ UNCHANGED pageVars

\* line 201
EvaluateAngles ==
  /\ pc = "angles"
  /\ scores' = [scores EXCEPT !.angles = evaluateAngles(corners)]
  /\ ran' = ran \cup {"evaluateAngles"}
  /\ pc' = "straightness"
  /\ UNCHANGED << rawPoints, points, candidates, accepted, cornerIdx, corners,
                  metrics, total, idealSquare, feedback, result, returned >>
  /\ UNCHANGED storageVars
  /\ UNCHANGED pageVars

\* line 202
EvaluateStraightness ==
  /\ pc = "straightness"
  /\ scores' = [scores EXCEPT !.straightness = evaluateStraightness(points, corners)]
  /\ ran' = ran \cup {"evaluateStraightness"}
  /\ pc' = "round"
  /\ UNCHANGED << rawPoints, points, candidates, accepted, cornerIdx, corners,
                  metrics, total, idealSquare, feedback, result, returned >>
  /\ UNCHANGED storageVars
  /\ UNCHANGED pageVars

\* lines 204-209
RoundMetrics ==
  /\ pc = "round"
  /\ metrics' = [closure |-> Round(scores.closure), sides |-> Round(scores.sides),
                 angles |-> Round(scores.angles),
                 straightness |-> Round(scores.straightness)]
  /\ pc' = "total"
  /\ UNCHANGED << rawPoints, points, candidates, accepted, cornerIdx, corners,
                  scores, total, idealSquare, feedback, result, ran, returned >>
  /\ UNCHANGED storageVars
  /\ UNCHANGED pageVars

\* line 211
CalculateFinalScore ==
  /\ pc = "total"
  /\ total' = calculateFinalScore(metrics)
  /\ pc' = "debug"
  /\ UNCHANGED << rawPoints, points, candidates, accepted, cornerIdx, corners,
                  scores, metrics, idealSquare, feedback, result, ran, returned >>
  /\ UNCHANGED storageVars
  /\ UNCHANGED pageVars

\* lines 215-225
DebugGeometry ==
  /\ pc = "debug"
  /\ idealSquare' = idealSquareOf(corners)
  /\ pc' = "feedback"
  /\ UNCHANGED << rawPoints, points, candidates, accepted, cornerIdx, corners,
                  scores, metrics, total, feedback, result, ran, returned >>
  /\ UNCHANGED storageVars
  /\ UNCHANGED pageVars

\* lines 228-231
FeedbackMapping ==
  /\ pc = "feedback"
  /\ feedback' = feedbackOf(total)
  /\ pc' = "return"
  /\ UNCHANGED << rawPoints, points, candidates, accepted, cornerIdx, corners,
                  scores, metrics, total, idealSquare, result, ran, returned >>
  /\ UNCHANGED storageVars
  /\ UNCHANGED pageVars

\* lines 239-247
Return ==
  /\ pc = "return"
  /\ result' = [total |-> total, metrics |-> metrics, feedback |-> feedback,
                debug |-> [corners |-> corners, idealSquare |-> idealSquare]]
  /\ returned' = Append(returned, [input |-> rawPoints, result |-> result'])
  /\ pc' = "done"
  /\ UNCHANGED << rawPoints, points, candidates, accepted, cornerIdx, corners,
                  scores, metrics, total, idealSquare, feedback, ran >>
  /\ UNCHANGED storageVars
  /\ UNCHANGED pageVars

Pipeline ==
  \/ NormalizePath
  \/ DetectCorners
  \/ EvaluateClosure
  \/ EvaluateSides
  \/ EvaluateAngles
  \/ EvaluateStraightness
  \/ RoundMetrics

Aggregate ==
  \/ CalculateFinalScore
  \/ DebugGeometry
  \/ FeedbackMapping
  \/ Return

Next ==
  \/ Validate
  \/ Pipeline
  \/ Aggregate

Spec == Init /\ [][Next]_vars

(***************************************************************************)
(* CallsSpec: up to MaxCalls calls of analyzeDrawing one after the other.  *)
(* A call gets fresh locals only where the code initialises them: the      *)
(* variables keep what the previous call left until a stage assigns them.  *)
(***************************************************************************)
InitCalls ==
  /\ pc = "idle"
  /\ rawPoints = <<>>
  /\ InitLocals
  /\ EmptyStorage
  /\ EmptyPage

\* line 182: analyzeDrawing(rawPoints) is entered with the path p
Call(p) ==
  /\ pc \in {"idle", "done"}
  /\ Len(returned) < MaxCalls
  /\ rawPoints' = p
  /\ ran' = {}
  /\ pc' = "start"
  /\ UNCHANGED << points, candidates, accepted, cornerIdx, corners, scores,
                  metrics, total, idealSquare, feedback, result, returned >>
  /\ UNCHANGED storageVars
  /\ UNCHANGED pageVars

NextCalls ==
  \/ \E p \in CallInputs : Call(p)
  \/ Validate
  \/ Pipeline
  \/ Aggregate

CallsSpec == InitCalls /\ [][NextCalls]_vars

(***************************************************************************)
(* ScoreSpec: calculateFinalScore and the feedback mapping applied to the  *)
(* metrics of MetricValues.  Init is analyzeDrawing at line 211, with the  *)
(* corners of an exact square as its geometry.                             *)
(***************************************************************************)
ScoreCorners == << Pt(-3536, -3536), Pt(3536, -3536), Pt(3536, 3536), Pt(-3536, 3536) >>

InitScore ==
  /\ pc = "total"
  /\ rawPoints = <<>>
  /\ points = <<>>
  /\ candidates = <<>>
  /\ accepted = <<>>
  /\ cornerIdx = <<>>
  /\ corners = ScoreCorners
  /\ scores = ZeroMetrics
  /\ metrics \in [closure : MetricValues, angles : MetricValues,
                   sides : MetricValues, straightness : MetricValues]
  /\ total = 0
  /\ idealSquare = <<>>
  /\ feedback = ""
  /\ result = NoResult
  /\ ran = {}
  /\ returned = <<>>
  /\ EmptyStorage
  /\ EmptyPage

NextScore == Aggregate

ScoreSpec == InitScore /\ [][NextScore]_vars

(***************************************************************************)
(* SidesSpec: evaluateSides applied to the corner sets of CornerSets.      *)
(* Init is analyzeDrawing at line 200 with four corners on a small grid,   *)
(* coincident corners (as detectCorners returns for a zigzag) included.    *)
(***************************************************************************)
SideCoords == {0, 300, 400}

GridPoints == { Pt(x, y) : x \in SideCoords, y \in SideCoords }

CornerSets == [1..4 -> GridPoints]

InitSides ==
  /\ pc = "sides"
  /\ rawPoints = <<>>
  /\ points = <<>>
  /\ candidates = <<>>
  /\ accepted = <<>>
  /\ cornerIdx = <<>>
  /\ corners \in CornerSets
  /\ scores = ZeroMetrics
  /\ metrics = ZeroMetrics
  /\ total = 0
  /\ idealSquare = <<>>
  /\ feedback = ""
  /\ result = NoResult
  /\ ran = {}
  /\ returned = <<>>
  /\ EmptyStorage
  /\ EmptyPage

NextSides == EvaluateSides

SidesSpec == InitSides /\ [][NextSides]_vars

(***************************************************************************)
(* ClosureSpec: the closure score of lines 195-198 applied to normalized   *)
(* paths that end at an offset (gx, gy) from their start.  Init is         *)
(* analyzeDrawing at line 195.                                             *)
(***************************************************************************)
GapCoords == {0, 1, 600, 1500, 2499, 2500, 2501, 5000}

\* 20 points from (0, 0) to (gx, gy)
GapPath(gx, gy) == [i \in 1..20 |-> Pt((gx * (i - 1)) \div 19, (gy * (i - 1)) \div 19)]

ClosurePaths == { GapPath(gx, gy) : gx \in GapCoords, gy \in GapCoords }

InitClosure ==
  /\ pc = "closure"
  /\ rawPoints = <<>>
  /\ points \in ClosurePaths
  /\ candidates = <<>>
  /\ accepted = <<>>
  /\ cornerIdx = <<>>
  /\ corners = <<>>
  /\ scores = ZeroMetrics
  /\ metrics = ZeroMetrics
  /\ total = 0
  /\ idealSquare = <<>>
  /\ feedback = ""
  /\ result = NoResult
  /\ ran = {}
  /\ returned = <<>>
  /\ EmptyStorage
  /\ EmptyPage

NextClosure == EvaluateClosure

ClosureSpec == InitClosure /\ [][NextClosure]_vars

(***************************************************************************)
(* StorageSpec: DatabaseStorage (part_005 lines 31-41) over the scores     *)
(* table (part_004 lines 19-29).  A row is [id, score]; stored holds the   *)
(* rows in insertion order, ids from the serial column.  Rows of equal     *)
(* score come back in no particular order: the query scans the table       *)
(* forwards or backwards before it sorts.                                  *)
(***************************************************************************)
ScoreValues == {40, 90}

DEFAULT_LIMIT == 10

Limits == {0, 1, 3, 12}

RECURSIVE Reverse(_)
Reverse(rows) ==
  IF rows = <<>> THEN <<>> ELSE Append(Reverse(Tail(rows)), Head(rows))

\* row r put into rows (highest score first) behind the rows of its score
RECURSIVE InsertByScore(_, _)
InsertByScore(rows, r) ==
  IF rows = <<>> THEN << r >>
  ELSE IF Head(rows).score < r.score THEN << r >> \o rows
  ELSE << Head(rows) >> \o InsertByScore(Tail(rows), r)

\* ORDER BY score ASC
RECURSIVE orderByAscScore(_)
orderByAscScore(rows) ==
  IF rows = <<>> THEN <<>>
  ELSE Reverse(InsertByScore(Reverse(orderByAscScore(Tail(rows))), Head(rows)))

\* line 39: ORDER BY score DESC
RECURSIVE orderByDescScore(_)
orderByDescScore(rows) ==
  IF rows = <<>> THEN <<>>
  ELSE InsertByScore(orderByDescScore(Tail(rows)), Head(rows))

\* line 40: LIMIT n
limitRows(rows, n) == SubSeq(rows, 1, IF n < Len(rows) THEN n ELSE Len(rows))

\* lines 31-34
createScore(score) ==
  /\ Len(stored) < MaxStored
  /\ LET newScore == [id |-> Len(stored) + 1, score |-> score]
     IN /\ stored' = Append(stored, newScore)
        /\ reply' = [op |-> "createScore", row |-> newScore]
  /\ UNCHANGED analyzerVars
  /\ UNCHANGED pageVars

\* lines 36-41, called with a limit
getScores(limit) ==
  /\ \E scan \in {stored, Reverse(stored)} :
       reply' = [op |-> "getScores", limit |-> limit,
                 rows |-> limitRows(orderByDescScore(scan), limit)]
  /\ UNCHANGED stored
  /\ UNCHANGED analyzerVars
  /\ UNCHANGED pageVars

\* line 36: called without a limit
getScoresDefault == getScores(DEFAULT_LIMIT)

InitStorage ==
  /\ pc = "idle"
  /\ rawPoints = <<>>
  /\ InitLocals
  /\ EmptyStorage
  /\ EmptyPage

NextStorage ==
  \/ \E score \in ScoreValues : createScore(score)
  \/ \E limit \in Limits : getScores(limit)
  \/ getScoresDefault

StorageSpec == InitStorage /\ [][NextStorage]_vars

(***************************************************************************)
(* GameSpec: the Game page (Game.tsx), its pointer handlers and its reset  *)
(* button, calling analyzeDrawing of part_002 on the captured path.        *)
(***************************************************************************)
\* analyzeDrawing as one call (part_002 lines 182-248)
\* each local of analyzeDrawing is computed once and then named: pts (line
\* 191), cs (line 192), m (lines 195-209), t (line 211)
TheOne(S) == CHOOSE x \in S : TRUE

\* lines 195-209
roundedMetrics(pts, cs) ==
  [closure |-> Round(closureScoreOf(pts)),
   sides |-> Round(evaluateSides(cs)),
   angles |-> Round(evaluateAngles(cs)),
   straightness |-> Round(evaluateStraightness(pts, cs))]

\* lines 211-247
scoreResultOf(m, cs) ==
  TheOne({ [total |-> t, metrics |-> m, feedback |-> feedbackOf(t),
            debug |-> [corners |-> cs, idealSquare |-> idealSquareOf(cs)]] :
           t \in { calculateFinalScore(m) } })

analyzeDrawing(p) ==
  IF Len(p) < MIN_POINTS THEN TooFast
  ELSE TheOne(UNION { UNION { { scoreResultOf(m, cs) : m \in { roundedMetrics(pts, cs) } } :
                              cs \in { detectCorners(pts) } } :
                      pts \in { normalizePath(p) } })

\* the paths the pointer follows: a closed square of 21 samples and a line
\* of 11
Gestures == { Square(5, TRUE), Line(11) }

\* the numbers of samples after which the pointer is lifted: around the 10
\* of the page and the 20 of the analyzer
StrokeLengths == {1, 10, 11, 19, 20, 21}

\* the strokes drawn: a gesture up to the sample where the pointer is lifted
Strokes ==
  UNION { { SubSeq(g, 1, n) : n \in { k \in StrokeLengths : k <= Len(g) } } : g \in Gestures }

StartPositions == { g[1] : g \in Gestures }

\* where the pointer is at its next move event
MovePositions ==
  IF isDrawingRef
  THEN { g[Len(pointsRef) + 1] :
           g \in { h \in Gestures : /\ Len(h) > Len(pointsRef)
                                    /\ SubSeq(h, 1, Len(pointsRef)) = pointsRef } }
  ELSE StartPositions

\* a stroke of at least 20 samples only
LongEnoughForAnalyzer(finalPoints) == Len(finalPoints) >= MIN_POINTS

\* Game.tsx line 219
LongEnough(finalPoints) == Len(finalPoints) > 10

\* the record with a score of 0
SubmissionOfZero(scoreResult) == [score |-> 0, metrics |-> scoreResult.metrics]

\* Game.tsx lines 227-230
Submission(scoreResult) == [score |-> scoreResult.total, metrics |-> scoreResult.metrics]

\* drawing is never prevented
ResultDisplayedNever == FALSE

\* Game.tsx lines 161, 181: if (result)
ResultDisplayed == pageResult # Null

\* Game.tsx lines 160-178
handleStart(pos) ==
  /\ Len(strokes) < MaxStrokes
  /\ event' = [type |-> "down", pos |-> pos]
  /\ IF ResultDisplayed
     THEN UNCHANGED << pageState, samples >>
     ELSE /\ pointsRef' = << pos >>
          /\ isDrawingRef' = TRUE
          /\ isDrawing' = TRUE
          /\ pagePoints' = <<>>
          /\ samples' = << pos >>
          /\ UNCHANGED pageResult
  /\ UNCHANGED << strokes, analyzed, shownResults, submitted >>
  /\ UNCHANGED << analyzerVars, storageVars >>

\* Game.tsx lines 180-209
handleMove(pos) ==
  /\ event' = [type |-> "move", pos |-> pos]
  /\ IF ~isDrawingRef \/ ResultDisplayed
     THEN UNCHANGED << pointsRef, samples >>
     ELSE /\ pointsRef' = Append(pointsRef, pos)
          /\ samples' = Append(samples, pos)
  /\ UNCHANGED << isDrawing, pagePoints, pageResult, isDrawingRef >>
  /\ UNCHANGED << strokes, analyzed, shownResults, submitted >>
  /\ UNCHANGED << analyzerVars, storageVars >>

\* Game.tsx lines 211-246
handleEnd ==
  /\ isDrawingRef => samples \in Strokes
  /\ event' = [type |-> "up"]
  /\ IF ~isDrawingRef
     THEN UNCHANGED << pageState, samples, strokes, analyzed, shownResults, submitted >>
     ELSE /\ isDrawingRef' = FALSE
          /\ isDrawing' = FALSE
          /\ strokes' = Append(strokes, samples)
          /\ samples' = <<>>
          /\ LET finalPoints == pointsRef
             IN IF LongEnough(finalPoints)
                THEN \E scoreResult \in { analyzeDrawing(finalPoints) } :
                        /\ pagePoints' = finalPoints
                        /\ pageResult' = scoreResult
                        /\ analyzed' = Append(analyzed, finalPoints)
                        /\ shownResults' = Append(shownResults, scoreResult)
                        /\ submitted' = Append(submitted, Submission(scoreResult))
                        /\ UNCHANGED pointsRef
                ELSE /\ pagePoints' = <<>>
                     /\ pointsRef' = <<>>
                     /\ UNCHANGED << pageResult, analyzed, shownResults, submitted >>
  /\ UNCHANGED << analyzerVars, storageVars >>

\* resetGame without line 259
resetGameKeepingRef ==
  /\ pageResult # Null
  /\ event' = [type |-> "reset"]
  /\ pagePoints' = <<>>
  /\ pageResult' = Null
  /\ isDrawing' = FALSE
  /\ isDrawingRef' = FALSE
  /\ samples' = <<>>
  /\ UNCHANGED pointsRef
  /\ UNCHANGED << strokes, analyzed, shownResults, submitted >>
  /\ UNCHANGED << analyzerVars, storageVars >>

\* Game.tsx lines 255-272, run by the button of the results panel, which is
\* rendered while a result is displayed (lines 602, 646)
resetGame ==
  /\ pageResult # Null
  /\ event' = [type |-> "reset"]
  /\ pagePoints' = <<>>
  /\ pageResult' = Null
  /\ isDrawing' = FALSE
  /\ pointsRef' = <<>>
  /\ isDrawingRef' = FALSE
  /\ samples' = <<>>
  /\ UNCHANGED << strokes, analyzed, shownResults, submitted >>
  /\ UNCHANGED << analyzerVars, storageVars >>

InitGame ==
  /\ pc = "idle"
  /\ rawPoints = <<>>
  /\ InitLocals
  /\ EmptyStorage
  /\ EmptyPage

NextGame ==
  \/ \E pos \in StartPositions : handleStart(pos)
  \/ \E pos \in MovePositions : handleMove(pos)
  \/ handleEnd
  \/ resetGame

GameSpec == InitGame /\ [][NextGame]_vars

(***************************************************************************)
(* Properties.                                                             *)
(***************************************************************************)
Entered == Len(rawPoints) >= 20

ScoreOK(v) == v \in 0..100

Numeric(p) == p.x # NaN /\ p.y # NaN

\* C1: for every input path of at least 20 samples the returned total and
\* the four metrics are integers in 0..100 (never NaN).
C1_ScoresInRange ==
  (pc = "done" /\ Entered) =>
    /\ ScoreOK(result.total)
    /\ ScoreOK(result.metrics.closure)
    /\ ScoreOK(result.metrics.sides)
    /\ ScoreOK(result.metrics.angles)
    /\ ScoreOK(result.metrics.straightness)

\* C2: for every input path of fewer than 20 samples, the empty path
\* included, analyzeDrawing returns total 0, all four metrics 0, the fixed
\* short-input feedback and no debug field, and runs neither normalizePath
\* nor detectCorners nor any evaluator.
C2_ShortInputShortCircuits ==
  (pc = "done" /\ Len(rawPoints) < 20) =>
    /\ result.total = 0
    /\ result.metrics = [closure |-> 0, angles |-> 0, sides |-> 0, straightness |-> 0]
    /\ result.feedback = "Too fast! Draw more slowly."
    /\ DOMAIN result = {"total", "metrics", "feedback"}
    /\ ran = {}
    /\ points = <<>>
    /\ corners = <<>>

C2_Witness == pc = "done" /\ Len(rawPoints) = 5 /\ result.total = 0

\* C3: the noise-free square of 25 samples per side, corners (+-0.5, +-0.5),
\* drawn from a corner and closed exactly on its start, gets total >= 95
\* and the feedback "Perfect Square".
C3_SyntheticSquareIsPerfect ==
  (pc = "done" /\ rawPoints = Square(25, TRUE)) =>
    /\ result.total # NaN
    /\ result.total >= 95
    /\ result.feedback = "Perfect Square"

\* C4: for every normalized path of n >= 20 points detectCorners returns
\* exactly 4 points, each the path point at an index of 0..n-1, in
\* non-decreasing index order, whether found by curvature or by fallback.
C4_FourCornersInPathOrder ==
  ("detectCorners" \in ran /\ Entered) =>
    /\ Len(corners) = 4
    /\ Len(cornerIdx) = 4
    /\ \A k \in 1..4 : /\ cornerIdx[k] \in 0..(Len(points) - 1)
                        /\ corners[k] = At(points, cornerIdx[k])
    /\ \A k \in 1..3 : cornerIdx[k] <= cornerIdx[k + 1]
    /\ pc = "done" => result.debug.corners = corners

\* corners found by curvature and corners synthesized, not in index order
\* of acceptance
C4_Witness ==
  /\ pc = "done"
  /\ Entered
  /\ Len(accepted) = 3
  /\ accepted[1] > accepted[3]

\* C5: for integer metrics in 0..100 the total is
\* round(0.35 angles + 0.30 sides + 0.25 straightness + 0.10 closure) with
\* halves rounded up, computed from the rounded metrics of the result.
C5_TotalIsHalfUpRoundedSum ==
  (pc = "done" /\ "debug" \in DOMAIN result) =>
    /\ result.metrics = metrics
    /\ result.total = (35 * metrics.angles + 30 * metrics.sides
                         + 25 * metrics.straightness + 10 * metrics.closure + 50) \div 100

\* C6: for a total in 0..100 of an input of at least 20 samples the
\* feedback is "Perfect Square" exactly when total >= 95, "Almost Perfect"
\* exactly when 85 <= total < 95, "Good Attempt" exactly when
\* 70 <= total < 85 and the default message exactly when total < 70, the
\* total being the rounded total of the result.
C6_FeedbackTiers ==
  (pc = "done" /\ "debug" \in DOMAIN result /\ ScoreOK(result.total)) =>
    /\ result.feedback = "Perfect Square" <=> result.total >= 95
    /\ result.feedback = "Almost Perfect" <=> (85 <= result.total /\ result.total < 95)
    /\ result.feedback = "Good Attempt" <=> (70 <= result.total /\ result.total < 85)
    /\ result.feedback = "Needs Practice" <=> result.total < 70

C6_Witness ==
  pc = "done" /\ result.total = 95 /\ result.feedback = "Perfect Square"

\* C7: analyzeDrawing is deterministic and stateless: two calls on the
\* same input return the same ScoreResult whatever was analysed before or
\* in between, and a call does not modify its input path.
C7_Deterministic ==
  /\ [](\A i, j \in 1..Len(returned) :
          returned[i].input = returned[j].input => returned[i].result = returned[j].result)
  /\ [][pc \notin {"idle", "done"} => rawPoints' = rawPoints]_vars

\* the same path analysed twice, another path in between
C7_Witness ==
  /\ Len(returned) = 3
  /\ returned[1].input = returned[3].input
  /\ returned[2].input # returned[1].input
  /\ Len(returned[1].input) >= 20
  /\ Len(returned[2].input) >= 20

AllSamePoint(pts) == \A i \in 1..Len(pts) : pts[i] = pts[1]

\* C8: for an input of at least 20 samples that are all the same point the
\* normalizer does not divide by zero: the call is a validation failure
\* and returns the zero ScoreResult, without debug geometry.
C8_DegenerateScaleGuarded ==
  (pc = "done" /\ Entered /\ AllSamePoint(rawPoints)) =>
    /\ result.total = 0
    /\ result.metrics = [closure |-> 0, angles |-> 0, sides |-> 0, straightness |-> 0]
    /\ "debug" \notin DOMAIN result

CornersCoincide ==
  /\ Len(corners) = 4
  /\ Numeric(corners[1])
  /\ \A k \in 2..4 : corners[k] = corners[1]

\* C9: evaluateSides never divides by zero: when the four corners coincide
\* the sides score is a defined value, not NaN in metrics.sides and total.
C9_SidesDefinedForCoincidentCorners ==
  ("evaluateSides" \in ran /\ CornersCoincide) =>
    /\ scores.sides \in 0..10000
    /\ pc = "done" => (ScoreOK(result.metrics.sides) /\ ScoreOK(result.total))

\* p lies on the straight side from a to b
OnSide(p, a, b) ==
  /\ (p.x - a.x) * (b.y - a.y) = (p.y - a.y) * (b.x - a.x)
  /\ (p.x - a.x) * (b.x - a.x) + (p.y - a.y) * (b.y - a.y) >= 0
  /\ (p.x - b.x) * (a.x - b.x) + (p.y - b.y) * (a.y - b.y) >= 0

\* the corners are the vertices of a square
IsSquare(cs) ==
  /\ \A k \in 1..4 : Numeric(cs[k])
  /\ cs[1] # cs[2]
  /\ \A k \in 1..4 :
        LET u == getVector(cs[k], cs[Next4(k)])
            v == getVector(cs[Next4(k)], cs[Next4(Next4(k))])
        IN u.x * v.x + u.y * v.y = 0 /\ u.x * u.x + u.y * u.y = v.x * v.x + v.y * v.y

NoiseFreeSquare ==
  /\ Len(corners) = 4
  /\ IsSquare(corners)
  /\ \A i \in 1..Len(points) : \E k \in 1..4 : OnSide(points[i], corners[k], corners[Next4(k)])

\* C10: for a noise-free square path (every path point exactly on one of
\* the four sides joining consecutive corners) the straightness metric is
\* 100: a point is charged only its distance to the side it belongs to.
C10_NoiseFreeSquareIsStraight ==
  (pc = "done" /\ Entered /\ NoiseFreeSquare) => result.metrics.straightness = 100

ClosedStroke == Len(rawPoints) >= 1 /\ rawPoints[Len(rawPoints)] = rawPoints[1]

\* C11: for a raw path of at least 20 samples whose last sample coincides
\* with its first, the closure metric is 100 (the closure gap is 0), even
\* after normalization and boundary-clipped smoothing.  Stated for strokes
\* of more than one distinct point (the one-point stroke is the case of C8).
C11_ClosedStrokeHasFullClosure ==
  (pc = "done" /\ Entered /\ ClosedStroke /\ ~AllSamePoint(rawPoints)) =>
    result.metrics.closure = 100

\* the four distances between consecutive corners, the 4th back to the 1st
sideLengths == [i \in 1..4 |-> distance(corners[i], corners[Next4(i)])]

SumOfSides == sideLengths[1] + sideLengths[2] + sideLengths[3] + sideLengths[4]

SumOfSquaredSides ==
  sideLengths[1] * sideLengths[1] + sideLengths[2] * sideLengths[2]
    + sideLengths[3] * sideLengths[3] + sideLengths[4] * sideLengths[4]

SidesEqualNonzero ==
  /\ sideLengths[1] > 0
  /\ \A i \in 2..4 : sideLengths[i] = sideLengths[1]

\* stdDev >= mean / 5, i.e. 25 * variance >= mean^2, over the common
\* denominator 16: 25 * (4 * sum of squares - sum^2) >= sum^2
DeviationAtLeastFifth == 100 * SumOfSquaredSides >= 26 * SumOfSides * SumOfSides

\* C12: evaluateSides returns 100 exactly when the four side lengths are
\* all equal and nonzero, and returns 0 whenever their population standard
\* deviation is at least 20% of their mean.
C12_SidesScoreExtremes ==
  ("evaluateSides" \in ran /\ Len(corners) = 4 /\ \A k \in 1..4 : Numeric(corners[k])) =>
    /\ scores.sides = 10000 <=> SidesEqualNonzero
    /\ DeviationAtLeastFifth => scores.sides = 0

\* the same statement away from coincident corners (mean side length > 0)
C12_SidesScoreExtremesNonDegenerate ==
  ("evaluateSides" \in ran /\ Len(corners) = 4 /\ SumOfSides > 0) =>
    /\ scores.sides = 10000 <=> SidesEqualNonzero
    /\ DeviationAtLeastFifth => scores.sides = 0

\* the closure gap of a normalized path, in 1/Scale
GapOf(pts) == distance(pts[1], pts[Len(pts)])

CirclePath == rawPoints \in {Circle36R80, Circle36R100}

\* C14: for a circular path of 36 evenly spaced samples the corner
\* detector finds no curvature peaks and falls back to equal division
\* (indices 0, 9, 18, 27), and the angles metric is below 60.
C14_CircleFallsBackAndScoresLow ==
  (pc = "done" /\ CirclePath) =>
    /\ accepted = <<>>
    /\ cornerIdx = <<0, 9, 18, 27>>
    /\ ScoreOK(result.metrics.angles)
    /\ result.metrics.angles < 60

\* a and b are the same number (NaN equals nothing, itself included)
SameNumber(a, b) == a # NaN /\ b # NaN /\ a = b

SamePoint(p, q) == SameNumber(p.x, q.x) /\ SameNumber(p.y, q.y)

\* the square of half-width r around (cx, cy), in the order of lines 220-225
SquareAround(sq, cx, cy, r) ==
  /\ Len(sq) = 4
  /\ SamePoint(sq[1], Pt(cx - r, cy - r))
  /\ SamePoint(sq[2], Pt(cx + r, cy - r))
  /\ SamePoint(sq[3], Pt(cx + r, cy + r))
  /\ SamePoint(sq[4], Pt(cx - r, cy + r))
  /\ sq[2].x - sq[1].x = 2 * r
  /\ sq[4].y - sq[1].y = 2 * r

\* the debug geometry of the result is the ideal square of the scored corners
DebugGeometryOK ==
  /\ "debug" \in DOMAIN result
  /\ result.debug.corners = corners
  /\ Len(corners) = 4
  /\ LET cs == result.debug.corners
         cx == RDiv(cs[1].x + cs[2].x + cs[3].x + cs[4].x, 4)
         cy == RDiv(cs[1].y + cs[2].y + cs[3].y + cs[4].y, 4)
         c == Pt(cx, cy)
         r == RDiv(distance(c, cs[1]) + distance(c, cs[2])
                     + distance(c, cs[3]) + distance(c, cs[4]), 4)
     IN /\ \A k \in 1..4 : Numeric(cs[k])
        /\ SquareAround(result.debug.idealSquare, cx, cy, r)

\* C15: for every input of at least 20 samples the result carries debug
\* geometry whose idealSquare is (cx-r,cy-r), (cx+r,cy-r), (cx+r,cy+r),
\* (cx-r,cy+r) in that order, (cx,cy) the centroid of the 4 corners and r
\* their mean distance from it, so axis-aligned with width and height 2r;
\* the debug corners are the CornerSet that was scored.
C15_IdealSquareAroundCorners ==
  (pc = "done" /\ Entered) => DebugGeometryOK

\* the same statement for the inputs that are not one repeated point
C15_IdealSquareAroundFiniteCorners ==
  (pc = "done" /\ Entered /\ ~AllSamePoint(rawPoints)) => DebugGeometryOK

RowsOf(rows) == { rows[i] : i \in 1..Len(rows) }

\* C16: after any sequence of createScore operations getScores(N) returns
\* min(N, number of stored rows) rows (N defaults to 10), distinct stored
\* rows in non-increasing score order, each with a score >= the score of
\* every stored row that was not returned.
C16_GetScoresReturnsTopN ==
  reply.op = "getScores" =>
    LET rows == reply.rows
        n == reply.limit
    IN /\ Len(rows) = (IF n < Len(stored) THEN n ELSE Len(stored))
       /\ RowsOf(rows) \subseteq RowsOf(stored)
       /\ \A i, j \in 1..Len(rows) : i < j =>
            (rows[i] # rows[j] /\ rows[i].score >= rows[j].score)
       /\ \A r \in RowsOf(rows) : \A u \in RowsOf(stored) \ RowsOf(rows) :
            r.score >= u.score

\* the default limit cuts a table of 11 rows, a 40 among the returned rows
\* and a 40 left out
C16_Witness ==
  /\ reply.op = "getScores"
  /\ reply.limit = 10
  /\ Len(stored) = 11
  /\ Len(reply.rows) = 10
  /\ reply.rows[10].score = 40
  /\ reply.rows[1].score = 90

\* the indices accepted by the greedy pass once it has visited the first j
\* candidates
AcceptedAfter(j) == Greedy(SubSeq(candidates, 1, j), <<>>, Len(points))

\* idx is at least n/8 away from every index of acc
AtLeastEighthAway(acc, idx, n) == \A k \in 1..Len(acc) : 8 * Abs(acc[k] - idx) >= n

\* C17: the greedy selection visits the candidates in descending strength
\* order and accepts a candidate whenever fewer than 4 are accepted and
\* its index is at least n/8 away from every accepted index (exactly n/8
\* is enough); the accepted indices are pairwise at least n/8 apart.
C17_GreedyAcceptsAtEighth ==
  ("detectCorners" \in ran /\ Entered) =>
    /\ \A j \in 1..(Len(candidates) - 1) :
         candidates[j].strength >= candidates[j + 1].strength
    /\ accepted = AcceptedAfter(Len(candidates))
    /\ \A j \in 1..Len(candidates) :
         (/\ Len(AcceptedAfter(j - 1)) < 4
          /\ AtLeastEighthAway(AcceptedAfter(j - 1), candidates[j].idx, Len(points)))
           => AcceptedAfter(j) = Append(AcceptedAfter(j - 1), candidates[j].idx)
    /\ \A a, b \in 1..Len(accepted) :
         a # b => 8 * Abs(accepted[a] - accepted[b]) >= Len(points)

\* floor(j * n / 4) for j = k, ..., 3
SynthesizedIndices(k, n) == [j \in 1..(4 - k) |-> ((k + j - 1) * n) \div 4]

\* C18: when the greedy selection accepts k < 4 candidates, the missing
\* corners are synthesized at the indices floor(j*n/4), j = k..3, and no
\* others; with k = 0 the CornerSet is the points at 0, floor(n/4),
\* floor(n/2), floor(3n/4).
C18_FallbackIndices ==
  ("detectCorners" \in ran /\ Entered /\ Len(accepted) < 4) =>
    LET n == Len(points)
        k == Len(accepted)
        all == accepted \o SynthesizedIndices(k, n)
    IN /\ cornerIdx = SortAsc(all, 4)
       /\ corners = [c \in 1..4 |-> At(points, cornerIdx[c])]
       /\ k = 0 => cornerIdx = << 0, n \div 4, n \div 2, (3 * n) \div 4 >>

\* three corners found by curvature, the fourth synthesized at
\* floor(3 * 101 / 4) = 75
C18_Witness ==
  /\ "detectCorners" \in ran
  /\ Len(points) = 101
  /\ Len(accepted) = 3
  /\ cornerIdx[4] = 75

\* C19: for every path of n >= 20 points the 4 path indices chosen for the
\* CornerSet are pairwise distinct: a synthesized index never equals a
\* detected index or another synthesized index.
C19_CornerIndicesDistinct ==
  ("detectCorners" \in ran /\ Entered) =>
    /\ Len(cornerIdx) = 4
    /\ \A a, b \in 1..4 : a # b => cornerIdx[a] # cornerIdx[b]

\* the angle between the chords i-2 -> i and i -> i+2 of the path, 1e-4 rad
ChordAngle(i) ==
  angleBetween(getVector(At(points, i - 2), At(points, i)),
               getVector(At(points, i), At(points, i + 2)))

CandidateIndices == { candidates[c].idx : c \in 1..Len(candidates) }

ScaledPath ==
  LET tr == Translated(rawPoints) IN Scaled(tr, MaxHypot(tr, 1, Len(tr)))

\* the 0-based indices max(0, i-5)..min(n-1, i+5)
ClippedWindow(i, n) == { j \in 0..(n - 1) : j >= i - 5 /\ j <= i + 5 }

\* the sum of one coordinate of the 0-based samples lo..hi of sc
RECURSIVE SumFrom(_, _, _, _)
SumFrom(sc, coord, lo, hi) ==
  IF lo > hi THEN 0
  ELSE FAdd(IF coord = "x" THEN At(sc, lo).x ELSE At(sc, lo).y, SumFrom(sc, coord, lo + 1, hi))

\* the arithmetic mean of one coordinate of sc over a window of indices
WindowMean(sc, coord, w) ==
  LET lo == CHOOSE j \in w : \A k \in w : j <= k
      hi == CHOOSE j \in w : \A k \in w : j >= k
  IN FDivExact(SumFrom(sc, coord, lo, hi), Cardinality(w))

\* every point of sm is the mean of sc over its clipped window
MeansOfClippedWindows(sm, sc) ==
  /\ Len(sm) = Len(sc)
  /\ \A i \in 0..(Len(sc) - 1) :
       LET w == ClippedWindow(i, Len(sc))
       IN /\ Cardinality(w) \in 6..11
          /\ At(sm, i) = Pt(WindowMean(sc, "x", w), WindowMean(sc, "y", w))

\* C21: normalizePath returns as many points as it was given, in the same
\* order, and smoothed point i is the arithmetic mean of the scaled points
\* at the indices max(0,i-5)..min(n-1,i+5) only: the window is clipped at
\* both ends (6 to 11 points), it never wraps and never pads.
C21_SmoothingWindowClipped ==
  (pc = "detect" /\ Entered) =>
    /\ Len(points) = Len(rawPoints)
    /\ MeansOfClippedWindows(points, ScaledPath)

\* the closed square has been normalized: its first point is the mean of
\* 6 samples, a point in the middle the mean of 11
C21_Witness ==
  /\ "normalizePath" \in ran
  /\ rawPoints = Square(25, TRUE)
  /\ Len(points) = 101
  /\ Numeric(points[1])
  /\ points[1] # ScaledPath[1]

\* corner i coincides with one of its two neighbouring corners
CoincidesWithNeighbour(cs, i) ==
  /\ \A k \in 1..4 : Numeric(cs[k])
  /\ cs[i] = cs[Prev4(i)] \/ cs[i] = cs[Next4(i)]

\* what corner i adds to totalScore is 0 when it lies on a neighbour
ZeroVectorCornersScoreZero ==
  \A i \in 1..4 :
    CoincidesWithNeighbour(corners, i) =>
      /\ angleBetween(getVector(corners[i], corners[Prev4(i)]),
                      getVector(corners[i], corners[Next4(i)])) = 0
      /\ cornerScore(corners, i) = 0

\* C22: when a corner coincides with one of its two neighbours,
\* angleBetween returns 0 without dividing by zero and the corner
\* contributes a score of 0; for every CornerSet evaluateAngles returns a
\* defined value in [0,100].
C22_AnglesDefinedForEveryCornerSet ==
  ("evaluateAngles" \in ran /\ Len(corners) = 4) =>
    /\ ZeroVectorCornersScoreZero
    /\ scores.angles # NaN
    /\ scores.angles \in 0..10000

\* the same statement for the corner sets of finite points
C22_AnglesDefinedForFiniteCorners ==
  ("evaluateAngles" \in ran /\ Len(corners) = 4 /\ \A k \in 1..4 : Numeric(corners[k])) =>
    /\ ZeroVectorCornersScoreZero
    /\ scores.angles \in 0..10000

\* the number of path points counted for the side from corner i
CountedOnSide(i) ==
  SideDeviation(points, 1, Len(points), corners[i], getVector(corners[i], corners[Next4(i)]),
                magnitude(getVector(corners[i], corners[Next4(i)])))[2]

\* C23: when no path point's projection falls within the span of any of
\* the 4 sides, evaluateStraightness uses the average deviation 0.5 and
\* returns 0; a side of length 0 counts no points and never makes the
\* straightness score undefined.
C23_StraightnessFallback ==
  (pc = "round" /\ Len(corners) = 4) =>
    /\ straightnessCount(points, corners) = 0 => scores.straightness = 0
    /\ \A i \in 1..4 : corners[i] = corners[Next4(i)] => CountedOnSide(i) = 0
    /\ scores.straightness # NaN
    /\ scores.straightness \in 0..10000

\* four coincident corners: every side has length 0 and no point counts
C23_Witness ==
  /\ pc = "round"
  /\ CornersCoincide
  /\ straightnessCount(points, corners) = 0
  /\ scores.straightness = 0

\* the feedback tiers from the lowest to the highest
TierOf(fb) ==
  IF fb = "Perfect Square" THEN 3
  ELSE IF fb = "Almost Perfect" THEN 2
  ELSE IF fb = "Good Attempt" THEN 1
  ELSE 0

MetricNames == {"closure", "angles", "sides", "straightness"}

\* the values one metric of the state is raised to: the next integer and
\* every larger value of MetricValues
RaisedValues(v) == { w \in MetricValues \cup {v + 1} : w > v /\ w <= 100 }

\* C24: for integer metrics in 0..100 the aggregate is monotone in every
\* metric: raising one metric with the other three fixed never lowers the
\* total, and never moves the feedback to a lower tier.
C24_AggregateMonotone ==
  (pc = "return" /\ total # NaN) =>
    \A f \in MetricNames : \A w \in RaisedValues(metrics[f]) :
      LET t == calculateFinalScore([metrics EXCEPT ![f] = w])
      IN /\ t >= total
         /\ TierOf(feedbackOf(t)) >= TierOf(feedback)

\* a state whose total and tier both rise when closure is raised by one step
C24_Witness ==
  /\ pc = "return"
  /\ metrics = [closure |-> 75, angles |-> 95, sides |-> 95, straightness |-> 95]
  /\ total = 93
  /\ feedback = "Almost Perfect"
  /\ calculateFinalScore([metrics EXCEPT !.closure = 100]) = 96

\* a pointer-up arriving while no stroke is in progress calls nothing
IdlePointerUpCallsNothing ==
  (event'.type = "up" /\ ~isDrawingRef) =>
     UNCHANGED << strokes, analyzed, shownResults, submitted, pageState >>

\* the strokes of more than 10 samples, in the order they were completed
RECURSIVE LongStrokes(_)
LongStrokes(ss) ==
  IF ss = <<>> THEN <<>>
  ELSE IF Len(Head(ss)) > 10 THEN << Head(ss) >> \o LongStrokes(Tail(ss))
  ELSE LongStrokes(Tail(ss))

\* C25: every completed stroke (pointer-down, moves, pointer-up) results in
\* exactly one analyzeDrawing call on that stroke's samples in chronological
\* order and in exactly one ScoreResult shown; a pointer-up with no stroke
\* in progress triggers no call.
C25_EveryStrokeAnalyzedOnce ==
  /\ [](analyzed = strokes /\ Len(shownResults) = Len(strokes))
  /\ [][IdlePointerUpCallsNothing]_vars

\* C25 for the strokes the page keeps: every completed stroke of more than
\* 10 samples results in exactly one analyzeDrawing call on its samples in
\* chronological order and in exactly one ScoreResult shown; a completed
\* stroke of at most 10 samples is discarded with no call and no result,
\* and a pointer-up with no stroke in progress triggers no call.
C25_EveryLongStrokeAnalyzedOnce ==
  /\ [](analyzed = LongStrokes(strokes) /\ Len(shownResults) = Len(analyzed))
  /\ [][IdlePointerUpCallsNothing]_vars

\* a stroke of 11 samples analyzed after a stroke of 10 samples was discarded
C25_Witness ==
  /\ event.type = "up"
  /\ Len(strokes) = 2
  /\ Len(strokes[1]) = 10
  /\ strokes[2] = Line(11)
  /\ analyzed = << Line(11) >>
  /\ Len(shownResults) = 1
  /\ pageResult = shownResults[1]

\* what createScore.mutate is given for a result
SubmissionFor(r) == [score |-> r.total, metrics |-> r.metrics]

\* a record is submitted only by the pointer-up that analyzes a stroke
SubmittedOnlyWithAnalysis ==
  submitted' # submitted =>
    /\ event'.type = "up"
    /\ Len(submitted') = Len(submitted) + 1
    /\ Len(analyzed') = Len(analyzed) + 1
    /\ Len(shownResults') = Len(shownResults) + 1

\* C26: each ScoreResult produced is submitted to persistence exactly once,
\* with that result's total as score and that result's metrics; nothing is
\* submitted on pointer-down, on pointer-move, on reset, or at the end of
\* a stroke that is not analyzed.
C26_EachResultSubmittedOnce ==
  /\ [](/\ Len(submitted) = Len(shownResults)
        /\ \A k \in 1..Len(shownResults) : submitted[k] = SubmissionFor(shownResults[k]))
  /\ [][SubmittedOnlyWithAnalysis]_vars

\* two results of different totals, each submitted once, after a reset
C26_Witness ==
  /\ Len(shownResults) = 2
  /\ Len(submitted) = 2
  /\ analyzed = << Square(5, TRUE), Line(11) >>
  /\ submitted[1].score = shownResults[1].total
  /\ submitted[1].score > 0
  /\ submitted[2].score = 0

\* C27: a validation-failure ScoreResult (a path shorter than 20 samples:
\* total 0 and no debug geometry) is never displayed and never submitted:
\* the Game page only analyzes and submits strokes that the analyzer accepts
\* as long enough.
C27_NoValidationFailureShown ==
  /\ pageResult # TooFast
  /\ \A k \in 1..Len(analyzed) : Len(analyzed[k]) >= 20
  /\ \A k \in 1..Len(shownResults) : "debug" \in DOMAIN shownResults[k]

PointerEvents == {"down", "move", "up"}

\* with a result displayed, a pointer event changes nothing of the page and
\* the result goes away by resetGame alone
FrozenWhileResultDisplayed ==
  pageResult # Null =>
    /\ event'.type \in PointerEvents => UNCHANGED pageState
    /\ pageResult' # pageResult => (event'.type = "reset" /\ pageResult' = Null)

\* C28: while a result is displayed no stroke is in progress, and
\* pointer-down, pointer-move and pointer-up leave the captured path, the
\* drawing flag and the displayed result unchanged; only resetGame clears
\* the result.
C28_ResultFreezesThePage ==
  /\ [](pageResult # Null => (~isDrawing /\ ~isDrawingRef))
  /\ [][FrozenWhileResultDisplayed]_vars

\* a pointer-down arrives while a result is displayed, and starts nothing
C28_Witness ==
  /\ pageResult # Null
  /\ event.type = "down"
  /\ ~isDrawingRef
  /\ pointsRef = Square(5, TRUE)
  /\ pagePoints = pointsRef

InitialPageState ==
  /\ pointsRef = <<>>
  /\ pagePoints = <<>>
  /\ pageResult = Null
  /\ ~isDrawing
  /\ ~isDrawingRef

\* resetGame leaves the page in its initial state
ResetRestoresInitialState == event'.type = "reset" => InitialPageState'

\* the pointer-down after a reset starts a path of its own sample alone
FreshStrokeAfterReset ==
  (event.type = "reset" /\ event'.type = "down") =>
     /\ pointsRef' = << event'.pos >>
     /\ pagePoints' = <<>>
     /\ isDrawingRef'

\* C29: from any reachable state resetGame restores the initial state (empty
\* path, no result, not drawing), and after it the next pointer-down starts
\* a fresh stroke containing only samples of the new stroke.
C29_ResetStartsAfresh ==
  /\ [][ResetRestoresInitialState /\ FreshStrokeAfterReset]_vars
  /\ [](isDrawingRef => pointsRef = samples)

\* the second stroke, drawn after a reset, holds its own samples only
C29_Witness ==
  /\ isDrawingRef
  /\ Len(strokes) = 1
  /\ strokes[1] = Square(5, TRUE)
  /\ Len(shownResults) = 1
  /\ pageResult = Null
  /\ pointsRef = Line(3)

=============================================================================
